---- MODULE Spec2Model ----
(***************************************************************************)
(* layer-tool: deterministic directory archiver, checksum engine and the   *)
(* check / import pipelines.                                               *)
(*                                                                         *)
(* Bytes are small integers (97 = 'a', 98 = 'b', 47 = '/').  A path is a   *)
(* sequence of components, a component a non-empty sequence of bytes.      *)
(* SHA-256 is idealised as collision free: the digest of a message is the  *)
(* padded message itself (the message followed by the 0x80 pad marker), so *)
(* two digests are equal exactly when the hashed byte streams are equal,   *)
(* and a digest is never the empty string.                                 *)
(***************************************************************************)
EXTENDS Integers, Sequences, FiniteSets, TLC

VARIABLES
    tree,       \* the source directory: a set of entries [path, kind, content]
    cpc,        \* position of the codec run: edit, summed, packed, extracted, done
    walk,       \* order in which WalkDir discovered the entries of tree
    dirSum,     \* calculate_directory_checksum(tree)
    layerTar,   \* archive written by create_tar_archive(tree)
    packSum,    \* checksum returned by create_tar_archive(tree)
    outTree,    \* destination directory of extract_tar_archive
    outSum,     \* calculate_directory_checksum(outTree)
    input,      \* the export file given to check / import
    edited,     \* how the export file was altered after the export
    pc,         \* position of the running command
    ran,        \* stages the running command has executed, in order
    result,     \* outcome of the command: "none", "ok" or the kind of error
    opts,       \* CheckOptions, the four skip flags (recorded where first read)
    host,       \* the current Docker environment
    exportData, \* ExportData parsed from metadata.json
    calculated, \* checksum the command computed
    warnings,   \* compatibility warnings collected by check
    errors,     \* compatibility errors collected by check
    performed,  \* compatibility comparisons check has executed
    summary,    \* "Checks performed" section printed by check
    backup,     \* import: whether a backup was requested (recorded where first read)
    container,  \* import: the target container as inspected
    targetPath, \* import: path returned by get_upper_layer_path
    target,     \* import: the target directory
    backupDir,  \* import: the sibling backup directory
    prior,      \* import: target and backup sibling as they were when import began
    output,     \* export: the file written, with the path it was written to
    wrote,      \* paths that the last extraction created or modified
    tried,      \* strategies get_upper_layer_path has called, with their results
    export_tar  \* is_compressed and the bytes of the file at export_tar_path

codecVars == <<tree, cpc, walk, dirSum, layerTar, packSum, outTree, outSum>>

fileVars == <<input, edited>>

checkVars == <<opts, warnings, errors, performed, summary>>

importVars == <<backup, container, targetPath, target, backupDir, prior>>

runVars == <<pc, ran, result, host, exportData, calculated>>

exportVars == <<output>>

unpackVars == <<wrote>>

locateVars == <<tried>>

openVars == <<export_tar>>

----------------------------------------------------------------------------
(* Bounds *)

MaxEntries == 3
MaxDepth == 2
MaxContent == 1

Bytes == {97, 98}
Names == {<<97>>, <<97, 98>>}

RECURSIVE SeqsUpTo(_, _)
SeqsUpTo(S, n) ==
    IF n = 0 THEN {<<>>}
    ELSE LET shorter == SeqsUpTo(S, n - 1)
         IN  shorter \cup {Append(s, x) : s \in {t \in shorter : Len(t) = n - 1}, x \in S}

Contents == SeqsUpTo(Bytes, MaxContent)
RelPaths == SeqsUpTo(Names, MaxDepth) \ {<<>>}

SrcRoot == <<<<115>>>>
DstRoot == <<<<116>>>>

----------------------------------------------------------------------------
(* Directory trees *)

Parent(p) == SubSeq(p, 1, Len(p) - 1)

IsPrefix(p, q) == Len(p) <= Len(q) /\ SubSeq(q, 1, Len(p)) = p

PathsOf(t) == {e.path : e \in t}

HasDir(t, p) == \E e \in t : e.path = p /\ e.kind = "dir"

\* An entry can be created where nothing exists and the parent is a directory.
CanCreate(t, p) ==
    /\ p \notin PathsOf(t)
    /\ Len(p) = 1 \/ HasDir(t, Parent(p))

FileEntry(p, c) == [path |-> p, kind |-> "file", content |-> c]
DirEntry(p) == [path |-> p, kind |-> "dir", content |-> <<>>]
\* A dangling symbolic link: neither is_file() nor is_dir() holds for it.
OtherEntry(p) == [path |-> p, kind |-> "other", content |-> <<>>]

----------------------------------------------------------------------------
(* Path order: std::path::Path::cmp compares component by component, each  *)
(* component byte by byte.                                                 *)

RECURSIVE BytesCmp(_, _)
BytesCmp(a, b) ==
    IF a = <<>> /\ b = <<>> THEN "Equal"
    ELSE IF a = <<>> THEN "Less"
    ELSE IF b = <<>> THEN "Greater"
    ELSE IF Head(a) < Head(b) THEN "Less"
    ELSE IF Head(a) > Head(b) THEN "Greater"
    ELSE BytesCmp(Tail(a), Tail(b))

RECURSIVE PathCmp(_, _)
PathCmp(p, q) ==
    IF p = <<>> /\ q = <<>> THEN "Equal"
    ELSE IF p = <<>> THEN "Less"
    ELSE IF q = <<>> THEN "Greater"
    ELSE LET c == BytesCmp(Head(p), Head(q))
         IN  IF c = "Equal" THEN PathCmp(Tail(p), Tail(q)) ELSE c

\* Insert e into the sorted sequence s, after every element not greater.
RECURSIVE SortInsert(_, _)
SortInsert(s, e) ==
    IF s = <<>> THEN <<e>>
    ELSE IF PathCmp(e.path, Head(s).path) = "Less" THEN <<e>> \o s
    ELSE <<Head(s)>> \o SortInsert(Tail(s), e)

RECURSIVE SortFrom(_, _)
SortFrom(sorted, rest) ==
    IF rest = <<>> THEN sorted
    ELSE SortFrom(SortInsert(sorted, Head(rest)), Tail(rest))

\* Mutant: the entries are left in discovery order.
sort_by_discovery(entries) == entries

\* entries.sort_by(|a, b| a.path().cmp(b.path()))
sort_by(entries) == SortFrom(<<>>, entries)

----------------------------------------------------------------------------
(* WalkDir: the root first, then a depth-first walk in which the children  *)
(* of each directory come in whatever order the filesystem lists them.     *)

WalkEntry(root, e) == [path |-> root \o e.path, kind |-> e.kind, content |-> e.content]

ChildrenOf(t, p) == {e \in t : Len(e.path) = Len(p) + 1 /\ Parent(e.path) = p}

RECURSIVE WalkBelow(_, _, _)
RECURSIVE WalkChildren(_, _, _)
WalkBelow(root, t, e) ==
    IF e.kind = "dir"
    THEN {<<WalkEntry(root, e)>> \o w : w \in WalkChildren(root, t, ChildrenOf(t, e.path))}
    ELSE {<<WalkEntry(root, e)>>}

WalkChildren(root, t, todo) ==
    IF todo = {} THEN {<<>>}
    ELSE UNION {{w \o r : w \in WalkBelow(root, t, e),
                          r \in WalkChildren(root, t, todo \ {e})} : e \in todo}

WalkDir(root, t) ==
    {<<[path |-> root, kind |-> "dir", content |-> <<>>]>> \o w :
        w \in WalkChildren(root, t, ChildrenOf(t, <<>>))}

----------------------------------------------------------------------------
(* Checksum engine *)

\* path.strip_prefix(root)
strip_prefix(path, root) == SubSeq(path, Len(root) + 1, Len(path))

\* relative_path.to_string_lossy().as_bytes(): components joined by '/'
RECURSIVE PathBytes(_)
PathBytes(rel) ==
    IF rel = <<>> THEN <<>>
    ELSE IF Len(rel) = 1 THEN Head(rel)
    ELSE Head(rel) \o <<47>> \o PathBytes(Tail(rel))

\* format!("{:x}", hasher.finalize()) of the bytes fed to the hasher
Sha256Hex(stream) == stream \o <<128>>

RECURSIVE DirFold(_, _, _)
DirFold(entries, dir_path, hasher) ==
    IF entries = <<>> THEN hasher
    ELSE LET e == Head(entries)
             relative_path == strip_prefix(e.path, dir_path)
         IN  IF e.kind = "file"
             THEN DirFold(Tail(entries), dir_path,
                          hasher \o PathBytes(relative_path) \o e.content)
             ELSE IF e.kind = "dir" /\ e.path # dir_path
             THEN DirFold(Tail(entries), dir_path, hasher \o PathBytes(relative_path))
             ELSE DirFold(Tail(entries), dir_path, hasher)

calculate_directory_checksum(dir_path, walked) ==
    Sha256Hex(DirFold(sort_by(walked), dir_path, <<>>))

----------------------------------------------------------------------------
(* Archive codec *)

TarEntry(name, type, data) == [name |-> name, type |-> type, data |-> data]

\* The loop of create_tar_archive: appends to the archive and feeds the hasher.
RECURSIVE PackFold(_, _, _, _)
PackFold(entries, source_path, builder, hasher) ==
    IF entries = <<>> THEN [archive |-> builder, hasher |-> hasher]
    ELSE LET e == Head(entries)
             relative_path == strip_prefix(e.path, source_path)
         IN  IF e.kind = "file"
             THEN PackFold(Tail(entries), source_path,
                           Append(builder, TarEntry(relative_path, "file", e.content)),
                           hasher \o PathBytes(relative_path) \o e.content)
             ELSE IF e.kind = "dir" /\ e.path # source_path
             THEN PackFold(Tail(entries), source_path,
                           Append(builder, TarEntry(relative_path, "dir", <<>>)),
                           hasher \o PathBytes(relative_path))
             ELSE PackFold(Tail(entries), source_path, builder, hasher)

\* Mutant: the archiver folds the entries in discovery order.
create_tar_archive_unsorted(source_path, walked) ==
    LET r == PackFold(walked, source_path, <<>>, <<>>)
    IN  [archive |-> r.archive, checksum |-> Sha256Hex(r.hasher)]

create_tar_archive(source_path, walked) ==
    LET r == PackFold(sort_by(walked), source_path, <<>>, <<>>)
    IN  [archive |-> r.archive, checksum |-> Sha256Hex(r.hasher)]

\* Directories that tar's unpack creates on the way to path p.
MissingParents(t, p) ==
    {DirEntry(SubSeq(p, 1, k)) : k \in {j \in 1..(Len(p) - 1) : SubSeq(p, 1, j) \notin PathsOf(t)}}

\* Unpacking one entry fails when something that is not a directory stands
\* where a directory is needed, or a directory where a file is needed.
UnpackBlocked(t, x) ==
    \/ \E e \in t : /\ e.kind # "dir"
                    /\ IsPrefix(e.path, x.name)
                    /\ e.path # x.name
    \/ \E e \in t : e.path = x.name /\ e.kind = "dir" /\ x.type # "dir"
    \/ \E e \in t : e.path = x.name /\ e.kind # "dir" /\ x.type = "dir"

\* Mutant: unpacking creates every file empty.
UnpackOneTruncated(t, x) ==
    ({e \in t : e.path # x.name} \cup MissingParents(t, x.name))
        \cup {[path |-> x.name, kind |-> x.type, content |-> <<>>]}

UnpackOne(t, x) ==
    ({e \in t : e.path # x.name} \cup MissingParents(t, x.name))
        \cup {[path |-> x.name, kind |-> x.type, content |-> x.data]}

\* Path components that are not names: ".." and the root "/".
ParentDir == <<46, 46>>
RootDir == <<47>>

\* Mutant: ".." in an entry's path is followed.
RECURSIVE unpack_in_following_parent(_, _)
unpack_in_following_parent(file_dst, name) ==
    IF name = <<>> THEN [skip |-> FALSE, path |-> file_dst]
    ELSE IF Head(name) = RootDir THEN unpack_in_following_parent(file_dst, Tail(name))
    ELSE IF Head(name) = ParentDir
    THEN unpack_in_following_parent(Parent(file_dst), Tail(name))
    ELSE unpack_in_following_parent(Append(file_dst, Head(name)), Tail(name))

\* Where tar's unpack puts an entry: the root and "." components of its path
\* are ignored, and an entry with a ".." component is skipped.
RECURSIVE unpack_in(_, _)
unpack_in(file_dst, name) ==
    IF name = <<>> THEN [skip |-> FALSE, path |-> file_dst]
    ELSE IF Head(name) = RootDir THEN unpack_in(file_dst, Tail(name))
    ELSE IF Head(name) = ParentDir THEN [skip |-> TRUE, path |-> file_dst]
    ELSE unpack_in(Append(file_dst, Head(name)), Tail(name))

\* The entries of the archive are unpacked in order into the directory dst,
\* whose content is t; wrote collects the paths created or modified.
RECURSIVE UnpackFold(_, _, _, _)
UnpackFold(archive, dst, t, done) ==
    IF archive = <<>> THEN [ok |-> TRUE, tree |-> t, wrote |-> done]
    ELSE LET x == Head(archive)
             at == unpack_in(dst, x.name)
             rel == [x EXCEPT !.name = strip_prefix(at.path, dst)]
         IN  IF at.skip \/ at.path = dst THEN UnpackFold(Tail(archive), dst, t, done)
             ELSE IF ~IsPrefix(dst, at.path)
             THEN UnpackFold(Tail(archive), dst, t, done \cup {at.path})
             ELSE IF UnpackBlocked(t, rel) THEN [ok |-> FALSE, tree |-> t, wrote |-> done]
             ELSE UnpackFold(Tail(archive), dst, UnpackOne(t, rel),
                             done \cup {at.path}
                                  \cup {dst \o e.path : e \in MissingParents(t, rel.name)})

\* archive.unpack(output_dir), output_dir holding the tree t
extract_tar_archive(archive, output_dir, t) == UnpackFold(archive, output_dir, t, {})

----------------------------------------------------------------------------
(* The export file: an outer tar holding metadata.json and layer.tar,      *)
(* optionally gzip framed.                                                 *)

BaseHost ==
    [up |-> TRUE, driver |-> "overlay2", operating_system |-> "linux",
     architecture |-> "amd64"]

\* A daemon that does not answer reports nothing.
DownHost == [BaseHost EXCEPT !.up = FALSE]

Hosts ==
    {DownHost, BaseHost, [BaseHost EXCEPT !.driver = "aufs"],
     [BaseHost EXCEPT !.architecture = "arm64"]}

\* ExportData as export.rs assembles it from the container metadata, the
\* daemon information, the checksum of the packed layer and the compress
\* flag (the load-bearing fields).
ExportDataOf(state, h, checksum, compress) ==
    [version |-> "1.0", id |-> "c0ffee", name |-> "web", image |-> "nginx",
     image_sha256 |-> "sha256:1234", state |-> state,
     driver |-> h.driver, operating_system |-> h.operating_system,
     architecture |-> h.architecture, server_version |-> "24.0",
     layer_checksum |-> checksum, compressed |-> compress]

\* The manifest of an uncompressed export of a running container on BaseHost.
Manifest(checksum) == ExportDataOf("running", BaseHost, checksum, FALSE)

StringFields ==
    {"version", "id", "name", "image", "image_sha256", "state", "driver",
     "operating_system", "architecture", "server_version"}

OtherValues(f) ==
    {""} \cup (IF f = "driver" THEN {"aufs"}
               ELSE IF f = "operating_system" THEN {"windows"}
               ELSE IF f = "architecture" THEN {"arm64"}
               ELSE {})

ExportFile(r) ==
    [exists |-> TRUE, ext |-> "tar", gzip |-> "none", cut |-> "none",
     outerOk |-> TRUE,
     hasMeta |-> TRUE, metaOk |-> TRUE, meta |-> Manifest(r.checksum),
     hasLayer |-> TRUE, layerOk |-> TRUE, layer |-> r.archive]

NoInput == ExportFile([checksum |-> <<>>, archive |-> <<>>])

\* No command has opened the file yet.
NotOpened == [is_compressed |-> FALSE, bytes |-> <<>>]

\* Nothing has been written by export.
NoOutput ==
    [written |-> FALSE, requested |-> <<>>, path |-> <<>>, entries |-> <<>>,
     file |-> NoInput]

NoOpts == [skip_image |-> FALSE, skip_storage |-> FALSE, skip_os |-> FALSE,
           skip_arch |-> FALSE]

NoContainer == [exists |-> FALSE, state |-> ""]

Absent == [exists |-> FALSE, tree |-> {}]
Dir(t) == [exists |-> TRUE, tree |-> t]

CheckNames == {"storage", "os", "arch", "image"}

PipelineIdle ==
    /\ pc = "idle"
    /\ ran = <<>>
    /\ result = "none"
    /\ opts = NoOpts
    /\ host = BaseHost
    /\ exportData = Manifest(<<>>)
    /\ calculated = <<>>
    /\ warnings = {}
    /\ errors = {}
    /\ performed = {}
    /\ summary = [c \in CheckNames |-> "none"]
    /\ backup = FALSE
    /\ container = NoContainer
    /\ targetPath = <<>>
    /\ target = Absent
    /\ backupDir = Absent
    /\ prior = [target |-> Absent, backupDir |-> Absent]
    /\ output = NoOutput
    /\ wrote = {}
    /\ tried = <<>>
    /\ export_tar = NotOpened

\* Layers the exported files are made from.
LayerTrees ==
    { {},
      {FileEntry(<<<<97>>>>, <<97>>), DirEntry(<<<<97, 98>>>>)},
      {DirEntry(<<<<97>>>>), FileEntry(<<<<97>>, <<97, 98>>>>, <<98>>)},
      {FileEntry(<<<<97>>>>, <<>>), OtherEntry(<<<<97, 98>>>>)} }

\* The state after an export: the file holds the packed layer and a manifest
\* recording the checksum that create_tar_archive returned.
Init ==
    /\ PipelineIdle
    /\ edited = "none"
    /\ \E t \in LayerTrees :
          /\ tree = t
          /\ \E w \in WalkDir(SrcRoot, t) :
                LET r == create_tar_archive(SrcRoot, w)
                IN  /\ layerTar = r.archive
                    /\ packSum = r.checksum
                    /\ input = ExportFile(r)
    /\ cpc = "exported"
    /\ walk = <<>>
    /\ dirSum = <<>>
    /\ outTree = {}
    /\ outSum = <<>>

----------------------------------------------------------------------------------------------------------------------------------------
(* Alterations of the export file between the export and its use.  The     *)
(* container-level ones (framing, missing or unreadable parts) combine     *)
(* freely; of the ones that alter the manifest or the layer at most one is *)
(* applied, to an otherwise intact file.                                   *)

Alter(kind, file) ==
    /\ pc = "idle"
    /\ input' = file
    /\ edited' = kind
    /\ UNCHANGED <<codecVars, runVars, checkVars, importVars, exportVars, unpackVars, locateVars, openVars>>

Damage(file) ==
    /\ edited \in {"none", "container"}
    /\ file # input
    /\ Alter("container", file)

Edit(kind, file) ==
    /\ edited = "none"
    /\ Alter(kind, file)

\* The parts of a file are described only as far as they can be read: a
\* deleted file has no framing, an unreadable outer archive no entries, a
\* missing entry no content.
Readable == input.exists /\ input.outerOk

DeleteInput == edited = "none" /\ Damage([input EXCEPT !.exists = FALSE])

\* The file is gzip framed, named and described as export --compress does.
FrameGzip ==
    /\ input.exists /\ input.gzip = "none"
    /\ Damage([input EXCEPT !.gzip = "gzip", !.ext = "gz", !.meta.compressed = TRUE])

\* The file starts with the gzip magic bytes but is not a gzip stream.
CorruptGzip == input.exists /\ Damage([input EXCEPT !.gzip = "corrupt"])

\* The extension of the file name or the compressed flag of the manifest
\* says the opposite of what the content is.
Mislabel ==
    \E framing \in {"none", "gzip"}, e \in {"tar", "gz"}, flag \in BOOLEAN :
        /\ (e = "gz") # (framing = "gzip") \/ flag # (framing = "gzip")
        /\ Edit("label", [input EXCEPT !.gzip = framing, !.ext = e,
                                        !.meta.compressed = flag])

\* The file, gzip framed or not, is cut down to nothing or to its first byte.
Truncate ==
    \E framing \in {"none", "gzip"}, c \in {"empty", "byte"} :
        Edit("truncate", [input EXCEPT !.gzip = framing, !.cut = c])

CorruptOuter ==
    /\ Readable
    /\ input.hasMeta /\ input.metaOk /\ input.hasLayer /\ input.layerOk
    /\ Damage([input EXCEPT !.outerOk = FALSE])

DropMetadata == Readable /\ input.metaOk /\ Damage([input EXCEPT !.hasMeta = FALSE])

DropLayer == Readable /\ input.layerOk /\ Damage([input EXCEPT !.hasLayer = FALSE])

\* metadata.json is not the JSON of an ExportData.
GarbleMetadata == Readable /\ input.hasMeta /\ Damage([input EXCEPT !.metaOk = FALSE])

\* layer.tar is not a well-formed tar stream.
CorruptLayer == Readable /\ input.hasLayer /\ Damage([input EXCEPT !.layerOk = FALSE])

\* A field of the manifest is rewritten.  What the commands do with the
\* field does not depend on the layer, so the manifest of the empty layer's
\* export is the one rewritten.
SetManifestField ==
    /\ input.layer = <<>>
    /\ \E f \in StringFields : \E v \in OtherValues(f) :
          Edit("field", [input EXCEPT !.meta[f] = v])

BlankChecksum == Edit("field", [input EXCEPT !.meta.layer_checksum = <<>>])

\* The manifest records the checksum of some other layer.
StaleChecksum ==
    \E t \in LayerTrees : \E w \in WalkDir(SrcRoot, t) :
        /\ create_tar_archive(SrcRoot, w).checksum # input.meta.layer_checksum
        /\ Edit("checksum",
                [input EXCEPT !.meta.layer_checksum = create_tar_archive(SrcRoot, w).checksum])

\* One byte of one file of the layer is changed.
TamperByte ==
    \E i \in 1..Len(input.layer) :
        /\ input.layer[i].type = "file"
        /\ \E j \in 1..Len(input.layer[i].data) :
              \E b \in Bytes \ {input.layer[i].data[j]} :
                  Edit("byte", [input EXCEPT !.layer[i].data[j] = b])

HasBelow(archive, name) ==
    \E k \in 1..Len(archive) : IsPrefix(name, archive[k].name) /\ archive[k].name # name

RemoveAt(archive, i) == SubSeq(archive, 1, i - 1) \o SubSeq(archive, i + 1, Len(archive))

\* One entry (with nothing below it) is removed from the layer.
TamperRemove ==
    \E i \in 1..Len(input.layer) :
        /\ ~HasBelow(input.layer, input.layer[i].name)
        /\ Edit("remove", [input EXCEPT !.layer = RemoveAt(input.layer, i)])

NamesIn(archive) == {archive[k].name : k \in 1..Len(archive)}

CanAdd(archive, p) ==
    /\ p \notin NamesIn(archive)
    /\ \/ Len(p) = 1
       \/ \E k \in 1..Len(archive) : archive[k].name = Parent(p) /\ archive[k].type = "dir"

\* One entry is added to the layer: a file, a directory or a dangling
\* symbolic link, at a path where the layer has nothing.
TamperAdd ==
    \E p \in RelPaths :
        /\ CanAdd(input.layer, p)
        /\ \E x \in {TarEntry(p, "file", c) : c \in Contents}
                    \cup {TarEntry(p, "dir", <<>>), TarEntry(p, "other", <<>>)} :
              Edit("add", [input EXCEPT !.layer = Append(input.layer, x)])

\* Entry paths that point out of the directory they are unpacked into:
\* "../a" and "/a".
EscapingNames == {<<ParentDir, <<97>>>>, <<RootDir, <<97>>>>}

Escaping(name) == \E i \in 1..Len(name) : name[i] \in {ParentDir, RootDir}

\* A file entry with an escaping path is added to the layer.
TamperEscape ==
    \E p \in EscapingNames :
        Edit("escape", [input EXCEPT !.layer = Append(input.layer, TarEntry(p, "file", <<98>>))])

EditNext ==
    \/ DeleteInput
    \/ FrameGzip
    \/ CorruptGzip
    \/ Mislabel
    \/ Truncate
    \/ CorruptOuter
    \/ DropMetadata
    \/ DropLayer
    \/ GarbleMetadata
    \/ SetManifestField
    \/ BlankChecksum
    \/ StaleChecksum
    \/ CorruptLayer
    \/ TamperByte
    \/ TamperRemove
    \/ TamperAdd
    \/ TamperEscape

----------------------------------------------------------------------------
(* Pieces shared by check and import *)

\* The bytes of a tar stream: per entry the name, a NUL, the size, the type
\* flag and the data; two zero blocks end the stream.
RECURSIVE TarBytes(_)
TarBytes(archive) ==
    IF archive = <<>> THEN <<0, 0>>
    ELSE LET x == Head(archive)
         IN  PathBytes(x.name) \o <<0, Len(x.data)>>
                \o <<IF x.type = "file" THEN 48 ELSE IF x.type = "dir" THEN 53 ELSE 50>>
                \o x.data \o TarBytes(Tail(archive))

\* The start of a gzip member: the magic bytes 0x1f 0x8b, then the method.
GzipMagic == <<31, 139>>
GzipHeader == GzipMagic \o <<8>>

\* compress_file: GzEncoder writes the header, the deflate stream and the
\* trailer.  The deflate stream is idealised as the stored data, the trailer
\* (CRC-32 and ISIZE) as the length of the data.
compress_file(bytes) == GzipHeader \o bytes \o <<Len(bytes)>>

\* Mutant: the last byte of the data is lost.
decompress_file_losing_a_byte(bytes) ==
    IF /\ Len(bytes) >= 4
       /\ SubSeq(bytes, 1, 3) = GzipHeader
       /\ bytes[Len(bytes)] = Len(bytes) - 4
    THEN [ok |-> TRUE, bytes |-> SubSeq(bytes, 4, Len(bytes) - 2)]
    ELSE [ok |-> FALSE, bytes |-> <<>>]

\* decompress_file: GzDecoder reads the header, inflates the data and checks
\* the trailer; anything else is an error.
decompress_file(bytes) ==
    IF /\ Len(bytes) >= 4
       /\ SubSeq(bytes, 1, 3) = GzipHeader
       /\ bytes[Len(bytes)] = Len(bytes) - 4
    THEN [ok |-> TRUE, bytes |-> SubSeq(bytes, 4, Len(bytes) - 1)]
    ELSE [ok |-> FALSE, bytes |-> <<>>]

\* The names of the two entries of the outer archive, metadata.json and
\* layer.tar, shortened to "m" and "l".
MetadataJson == <<<<109>>>>
LayerTar == <<<<108>>>>

\* serde_json::to_string_pretty of the manifest, rendered by its checksum
\* between braces.
to_string_pretty(export_data) == <<123>> \o export_data.layer_checksum \o <<125>>

\* Mutant: layer.tar is appended before metadata.json.
create_export_archive_layer_first(metadata, layer) ==
    <<TarEntry(LayerTar, "file", layer), TarEntry(MetadataJson, "file", metadata)>>

\* create_export_archive: append_path_with_name of the metadata file as
\* metadata.json, then of the layer archive as layer.tar.
create_export_archive(metadata, layer) ==
    <<TarEntry(MetadataJson, "file", metadata), TarEntry(LayerTar, "file", layer)>>

\* Output paths a caller may give, as the parts between the dots of the file
\* name: out, out.tar, out.gz, out.tar.gz, out.tgz.
OutputPaths ==
    {<<"out">>, <<"out", "tar">>, <<"out", "gz">>, <<"out", "tar", "gz">>,
     <<"out", "tgz">>}

\* str::ends_with(".gz")
ends_with_gz(path) == Len(path) >= 2 /\ path[Len(path)] = "gz"

\* Path::with_extension: the extension of the file name, when it has one, is
\* replaced, otherwise the new one is added.
with_extension(path, extension) ==
    (IF Len(path) >= 2 THEN SubSeq(path, 1, Len(path) - 1) ELSE path) \o extension

\* Path::extension of a path, "" when the file name has none.
ExtensionOf(path) == IF Len(path) >= 2 THEN path[Len(path)] ELSE ""

\* execute, "Handle compression and final output": the path the export is
\* written to.
final_output_path(output_path, compress) ==
    IF compress
    THEN IF ends_with_gz(output_path) THEN output_path
         ELSE with_extension(output_path, <<"tar", "gz">>)
    ELSE output_path

\* The entries create_export_archive writes, metadata.json ("m") before
\* layer.tar ("l"), as far as the file still has them.  The JSON of the
\* manifest is rendered by its checksum between braces; a part that cannot
\* be read holds "?".
OuterEntries(file) ==
    (IF file.hasMeta
     THEN <<TarEntry(MetadataJson, "file",
                     IF file.metaOk THEN to_string_pretty(file.meta) ELSE <<63>>)>>
     ELSE <<>>)
    \o (IF file.hasLayer
        THEN <<TarEntry(LayerTar, "file",
                        IF file.layerOk THEN TarBytes(file.layer) ELSE <<63>>)>>
        ELSE <<>>)

\* The bytes of the outer tar stream of the file.
OuterTarBytes(file) == IF file.outerOk THEN TarBytes(OuterEntries(file)) ELSE <<63>>

\* The bytes of the file on disk: the outer tar stream, gzip framed or not,
\* whole or cut.  A corrupt gzip stream is one that lost its trailer.
FileBytes(file) ==
    LET outer == OuterTarBytes(file)
        framed == IF file.gzip = "gzip" THEN compress_file(outer)
                  ELSE IF file.gzip = "corrupt"
                  THEN SubSeq(compress_file(outer), 1, Len(outer) + 3)
                  ELSE outer
    IN  IF file.cut = "empty" THEN <<>>
        ELSE IF file.cut = "byte" THEN SubSeq(framed, 1, 1)
        ELSE framed

\* Mutant: a file named .gz is taken for a gzip file.
is_gzip_file_by_extension(file) == file.ext = "gz"

\* is_gzip_file: read_exact of two bytes; they are 0x1f 0x8b.  A file too
\* short for the read is not a gzip file.
is_gzip_file(file) ==
    LET bytes == FileBytes(file)
    IN  IF Len(bytes) >= 2 THEN SubSeq(bytes, 1, 2) = GzipMagic ELSE FALSE

\* execute of check and of import, "Handle decompression if needed": the
\* file at export_tar_path is the decompressed copy when is_gzip_file says
\* so, the input file otherwise.
open_export_tar(file) ==
    LET is_compressed == is_gzip_file(file)
        d == decompress_file(FileBytes(file))
    IN  IF is_compressed
        THEN [ok |-> d.ok, tar |-> [is_compressed |-> TRUE, bytes |-> d.bytes]]
        ELSE [ok |-> TRUE, tar |-> [is_compressed |-> FALSE, bytes |-> FileBytes(file)]]

\* What Archive::unpack finds in a stream: the entries of the outer archive
\* when the stream is its bytes, nothing in an empty stream, and an error
\* in anything else.
Unpacked(bytes, file) ==
    IF bytes = OuterTarBytes(file) THEN file
    ELSE IF bytes = <<>>
    THEN [file EXCEPT !.outerOk = TRUE, !.hasMeta = FALSE, !.hasLayer = FALSE]
    ELSE [file EXCEPT !.outerOk = FALSE]

\* The export archive as the stages after the decompression read it.
export_archive == Unpacked(export_tar.bytes, input)

\* DockerClient::get_docker_info
get_docker_info(h) == [ok |-> h.up, info |-> h]

\* main: the process exits with 0 when execute returned Ok, with 1 otherwise
main(res) == IF res = "ok" THEN 0 ELSE 1

Stop(kind) ==
    /\ pc' = "done"
    /\ result' = kind

----------------------------------------------------------------------------
(* CheckCommand *)

Options == [skip_image : BOOLEAN, skip_storage : BOOLEAN, skip_os : BOOLEAN,
            skip_arch : BOOLEAN]

\* Mutant: only metadata.json is looked for.
extract_and_validate_structure_meta_only(file) ==
    IF ~file.outerOk THEN "IOError"
    ELSE IF ~file.hasMeta THEN "StructuralError"
    ELSE "ok"

\* extract_and_validate_structure
extract_and_validate_structure(file) ==
    IF ~file.outerOk THEN "IOError"
    ELSE IF ~file.hasMeta THEN "StructuralError"
    ELSE IF ~file.hasLayer THEN "StructuralError"
    ELSE "ok"

\* read_and_validate_metadata
read_and_validate_metadata(file) ==
    IF ~file.hasMeta THEN "IOError"
    ELSE IF ~file.metaOk THEN "SchemaError"
    ELSE IF file.meta.version = "" THEN "SchemaError"
    ELSE IF file.meta.id = "" THEN "SchemaError"
    ELSE IF file.meta.image_sha256 = "" THEN "SchemaError"
    ELSE IF file.meta.layer_checksum = <<>> THEN "SchemaError"
    ELSE "ok"

\* calculate_file_checksum: SHA-256 of the bytes of the file
calculate_file_checksum(archive) == Sha256Hex(TarBytes(archive))

\* validate_layer_archive: lists the entries, computes the checksum of the
\* tar file and prints it next to the expected one.
validate_layer_archive(file) ==
    IF ~file.hasLayer \/ ~file.layerOk THEN [res |-> "IOError", checksum |-> <<>>]
    ELSE [res |-> "ok", checksum |-> calculate_file_checksum(file.layer)]

\* Mutant: an architecture mismatch is recorded as a warning.
perform_compatibility_checks_arch_warns(export_data, options, h) ==
    LET current == get_docker_info(h)
        w == {c \in {"storage"} : ~options.skip_storage /\ export_data.driver # current.info.driver}
             \cup {c \in {"os"} : /\ ~options.skip_os
                                  /\ export_data.operating_system # current.info.operating_system}
             \cup {c \in {"arch"} : /\ ~options.skip_arch
                                    /\ export_data.architecture # current.info.architecture}
        done == {c \in {"storage"} : ~options.skip_storage}
                \cup {c \in {"os"} : ~options.skip_os}
                \cup {c \in {"arch"} : ~options.skip_arch}
                \cup {c \in {"image"} : ~options.skip_image}
    IN  IF ~current.ok
        THEN [res |-> "ok", warnings |-> {}, errors |-> {}, performed |-> {}]
        ELSE [res |-> "ok", warnings |-> w, errors |-> {}, performed |-> done]

\* Mutant: a storage-driver mismatch is recorded as an error.
perform_compatibility_checks_storage_fatal(export_data, options, h) ==
    LET current == get_docker_info(h)
        w == {c \in {"os"} : /\ ~options.skip_os
                             /\ export_data.operating_system # current.info.operating_system}
        e == {c \in {"arch"} : /\ ~options.skip_arch
                               /\ export_data.architecture # current.info.architecture}
             \cup {c \in {"storage"} : /\ ~options.skip_storage
                                       /\ export_data.driver # current.info.driver}
        done == {c \in {"storage"} : ~options.skip_storage}
                \cup {c \in {"os"} : ~options.skip_os}
                \cup {c \in {"arch"} : ~options.skip_arch}
                \cup {c \in {"image"} : ~options.skip_image}
    IN  IF ~current.ok
        THEN [res |-> "ok", warnings |-> {}, errors |-> {}, performed |-> {}]
        ELSE [res |-> IF e # {} THEN "CompatibilityError" ELSE "ok",
              warnings |-> w, errors |-> e, performed |-> done]

\* Mutant: the comparisons are made although the daemon did not answer.
perform_compatibility_checks_without_info(export_data, options, h) ==
    LET current == get_docker_info(h)
        w == {c \in {"storage"} : ~options.skip_storage /\ export_data.driver # current.info.driver}
             \cup {c \in {"os"} : /\ ~options.skip_os
                                  /\ export_data.operating_system # current.info.operating_system}
        e == {c \in {"arch"} : /\ ~options.skip_arch
                               /\ export_data.architecture # current.info.architecture}
        done == {c \in {"storage"} : ~options.skip_storage}
                \cup {c \in {"os"} : ~options.skip_os}
                \cup {c \in {"arch"} : ~options.skip_arch}
                \cup {c \in {"image"} : ~options.skip_image}
    IN  [res |-> IF e # {} THEN "CompatibilityError" ELSE "ok",
         warnings |-> w, errors |-> e, performed |-> done]

\* perform_compatibility_checks
perform_compatibility_checks(export_data, options, h) ==
    LET current == get_docker_info(h)
        w == {c \in {"storage"} : ~options.skip_storage /\ export_data.driver # current.info.driver}
             \cup {c \in {"os"} : /\ ~options.skip_os
                                  /\ export_data.operating_system # current.info.operating_system}
        e == {c \in {"arch"} : /\ ~options.skip_arch
                               /\ export_data.architecture # current.info.architecture}
        done == {c \in {"storage"} : ~options.skip_storage}
                \cup {c \in {"os"} : ~options.skip_os}
                \cup {c \in {"arch"} : ~options.skip_arch}
                \cup {c \in {"image"} : ~options.skip_image}
    IN  IF ~current.ok
        THEN [res |-> "ok", warnings |-> {}, errors |-> {}, performed |-> {}]
        ELSE [res |-> IF e # {} THEN "CompatibilityError" ELSE "ok",
              warnings |-> w, errors |-> e, performed |-> done]

\* display_check_results, the "Checks performed" lines
display_check_results(options) ==
    [c \in CheckNames |->
        IF \/ c = "storage" /\ options.skip_storage
           \/ c = "os" /\ options.skip_os
           \/ c = "arch" /\ options.skip_arch
           \/ c = "image" /\ options.skip_image
        THEN "skipped" ELSE "passed"]

CheckOpen ==
    /\ pc = "idle"
    /\ ran' = <<"open">>
    /\ IF ~input.exists THEN Stop("NotFound") /\ UNCHANGED export_tar
       ELSE LET r == open_export_tar(input)
            IN  /\ export_tar' = r.tar
                /\ IF r.ok THEN pc' = "check_structure" /\ result' = "none"
                   ELSE Stop("IOError")
    /\ UNCHANGED <<host, exportData, calculated>>
    /\ UNCHANGED <<codecVars, fileVars, checkVars, importVars, exportVars, unpackVars, locateVars>>

CheckStructure ==
    /\ pc = "check_structure"
    /\ ran' = Append(ran, "structural")
    /\ LET r == extract_and_validate_structure(export_archive)
       IN  IF r = "ok" THEN pc' = "check_metadata" /\ result' = "none" ELSE Stop(r)
    /\ UNCHANGED <<host, exportData, calculated>>
    /\ UNCHANGED <<codecVars, fileVars, checkVars, importVars, exportVars, unpackVars, locateVars, openVars>>

CheckMetadata ==
    /\ pc = "check_metadata"
    /\ ran' = Append(ran, "schema")
    /\ LET r == read_and_validate_metadata(export_archive)
       IN  IF r = "ok"
           THEN pc' = "check_layer" /\ result' = "none"
                /\ exportData' = export_archive.meta
           ELSE Stop(r) /\ UNCHANGED exportData
    /\ UNCHANGED <<host, calculated>>
    /\ UNCHANGED <<codecVars, fileVars, checkVars, importVars, exportVars, unpackVars, locateVars, openVars>>

\* Mutant: check goes on to the compatibility checks with a layer archive
\* that could not be read.
CheckLayer_continuing ==
    /\ pc = "check_layer"
    /\ LET r == validate_layer_archive(export_archive)
       IN  /\ calculated' = r.checksum
           /\ ran' = IF r.res = "ok" THEN ran \o <<"layer", "checksum">>
                     ELSE Append(ran, "layer")
           /\ pc' = "check_compat" /\ result' = "none"
    /\ UNCHANGED <<host, exportData>>
    /\ UNCHANGED <<codecVars, fileVars, checkVars, importVars, exportVars, unpackVars, locateVars, openVars>>

\* validate_layer_archive: the entries are listed and, when that succeeded,
\* the checksum of the tar file is computed and printed.
CheckLayer ==
    /\ pc = "check_layer"
    /\ LET r == validate_layer_archive(export_archive)
       IN  /\ calculated' = r.checksum
           /\ ran' = IF r.res = "ok" THEN ran \o <<"layer", "checksum">>
                     ELSE Append(ran, "layer")
           /\ IF r.res = "ok" THEN pc' = "check_compat" /\ result' = "none" ELSE Stop(r.res)
    /\ UNCHANGED <<host, exportData>>
    /\ UNCHANGED <<codecVars, fileVars, checkVars, importVars, exportVars, unpackVars, locateVars, openVars>>

CheckCompat ==
    /\ pc = "check_compat"
    /\ ran' = Append(ran, "compat")
    /\ \E o \in Options, h \in Hosts :
          LET r == perform_compatibility_checks(exportData, o, h)
          IN  /\ opts' = o
              /\ host' = h
              /\ warnings' = r.warnings
              /\ errors' = r.errors
              /\ performed' = r.performed
              /\ IF r.res = "ok" THEN pc' = "check_report" /\ result' = "none" ELSE Stop(r.res)
    /\ UNCHANGED <<exportData, calculated, summary>>
    /\ UNCHANGED <<codecVars, fileVars, importVars, exportVars, unpackVars, locateVars, openVars>>

CheckReport ==
    /\ pc = "check_report"
    /\ ran' = Append(ran, "report")
    /\ summary' = display_check_results(opts)
    /\ Stop("ok")
    /\ UNCHANGED <<host, exportData, calculated>>
    /\ UNCHANGED <<opts, warnings, errors, performed>>
    /\ UNCHANGED <<codecVars, fileVars, importVars, exportVars, unpackVars, locateVars, openVars>>

CheckNext ==
    \/ CheckOpen
    \/ CheckStructure
    \/ CheckMetadata
    \/ CheckLayer
    \/ CheckCompat
    \/ CheckReport

----------------------------------------------------------------------------
(* DockerClient: container validation and the writable-layer locator.  A   *)
(* path string is the sequence of its components; "" is the empty one.     *)

Containers ==
    {NoContainer}
        \cup [exists : {TRUE}, state : {"running", "exited", "removing", "dead", "Dead"}]

\* What docker inspect can report of the container: nothing when the daemon
\* does not answer.
Inspected(h) == IF h.up THEN Containers ELSE {NoContainer}

\* String::to_lowercase on the lifecycle states in use
to_lowercase(str) ==
    IF str = "Dead" THEN "dead" ELSE str

\* Mutant: the lifecycle state is compared as reported, case included.
validate_container_case_sensitive(c, h) ==
    IF ~(h.up /\ c.exists) THEN "NotFound"
    ELSE IF c.state = "removing" \/ c.state = "dead"
    THEN "InvalidState"
    ELSE IF ~get_docker_info(h).ok THEN "IOError"
    ELSE "ok"

\* Mutant: a storage driver other than overlay2 is refused.
validate_container_driver_fatal(c, h) ==
    IF ~(h.up /\ c.exists) THEN "NotFound"
    ELSE IF to_lowercase(c.state) = "removing" \/ to_lowercase(c.state) = "dead"
    THEN "InvalidState"
    ELSE IF ~get_docker_info(h).ok THEN "IOError"
    ELSE IF get_docker_info(h).info.driver # "overlay2" THEN "CompatibilityError"
    ELSE "ok"

\* validate_container_for_layer_operations
validate_container_for_layer_operations(c, h) ==
    IF ~(h.up /\ c.exists) THEN "NotFound"
    ELSE IF to_lowercase(c.state) = "removing" \/ to_lowercase(c.state) = "dead"
    THEN "InvalidState"
    ELSE IF ~get_docker_info(h).ok THEN "IOError"
    ELSE "ok"

NoValue == <<"<no value>">>
LayerDir == <<"/", "var", "lib", "docker", "overlay2", "L1">>

\* What docker inspect prints for the fields of GraphDriver.Data
GraphDrivers ==
    [UpperDir : {<<>>, NoValue, Append(LayerDir, "diff")},
     MergedDir : {<<>>, NoValue, Append(LayerDir, "merged")},
     WorkDir : {NoValue, Append(LayerDir, "work")}]

\* get_upper_layer_path_direct
get_upper_layer_path_direct(g) ==
    IF g.UpperDir = <<>> \/ g.UpperDir = NoValue
    THEN [ok |-> FALSE, path |-> <<>>]
    ELSE [ok |-> TRUE, path |-> g.UpperDir]

\* get_container_layer_path: the parent of MergedDir
get_container_layer_path(g) ==
    IF g.MergedDir = <<>>
    THEN [ok |-> FALSE, path |-> <<>>]
    ELSE [ok |-> TRUE, path |-> SubSeq(g.MergedDir, 1, Len(g.MergedDir) - 1)]

\* get_upper_layer_path_traditional
get_upper_layer_path_traditional(g) ==
    LET layer_path == get_container_layer_path(g)
    IN  IF layer_path.ok
        THEN [ok |-> TRUE, path |-> Append(layer_path.path, "upper")]
        ELSE layer_path

\* extract_layer_id_from_path: the component after "overlay2"
extract_layer_id_from_path(p) ==
    LET at == {i \in 1..(Len(p) - 1) : p[i] = "overlay2"}
    IN  IF at = {} THEN <<>>
        ELSE <<p[(CHOOSE i \in at : \A j \in at : i <= j) + 1]>>

\* get_upper_layer_path_by_inspection: the fields of the data map that are
\* present, in key order; onDisk tells whether the rebuilt path exists.
get_upper_layer_path_by_inspection(g, onDisk) ==
    LET present == SelectSeq(<<g.MergedDir, g.UpperDir, g.WorkDir>>,
                             LAMBDA v : v # NoValue /\ extract_layer_id_from_path(v) # <<>>)
    IN  IF present # <<>> /\ onDisk
        THEN [ok |-> TRUE,
              path |-> <<"/", "var", "lib", "docker", "overlay2">>
                          \o extract_layer_id_from_path(Head(present)) \o <<"upper">>]
        ELSE [ok |-> FALSE, path |-> <<>>]

\* The call of one strategy and what it returned.
Attempt(name, r) == [strategy |-> name, ok |-> r.ok, path |-> r.path]

\* Mutant: the derived strategy is called before the direct one.
get_upper_layer_path_derived_first(g, onDisk) ==
    LET direct == get_upper_layer_path_direct(g)
        traditional == get_upper_layer_path_traditional(g)
        inspection == get_upper_layer_path_by_inspection(g, onDisk)
    IN  IF traditional.ok
        THEN [ok |-> TRUE, path |-> traditional.path,
              tried |-> <<Attempt("derived", traditional)>>]
        ELSE IF direct.ok
        THEN [ok |-> TRUE, path |-> direct.path,
              tried |-> <<Attempt("derived", traditional), Attempt("direct", direct)>>]
        ELSE [ok |-> inspection.ok, path |-> inspection.path,
              tried |-> <<Attempt("derived", traditional), Attempt("direct", direct),
                          Attempt("inferred", inspection)>>]

\* get_upper_layer_path: the strategies are called in order until one returns
\* Ok; provide_detailed_layer_error returns the error when none did.
get_upper_layer_path(g, onDisk) ==
    LET direct == get_upper_layer_path_direct(g)
        traditional == get_upper_layer_path_traditional(g)
        inspection == get_upper_layer_path_by_inspection(g, onDisk)
    IN  IF direct.ok
        THEN [ok |-> TRUE, path |-> direct.path, tried |-> <<Attempt("direct", direct)>>]
        ELSE IF traditional.ok
        THEN [ok |-> TRUE, path |-> traditional.path,
              tried |-> <<Attempt("direct", direct), Attempt("derived", traditional)>>]
        ELSE [ok |-> inspection.ok, path |-> inspection.path,
              tried |-> <<Attempt("direct", direct), Attempt("derived", traditional),
                          Attempt("inferred", inspection)>>]

----------------------------------------------------------------------------
(* ImportCommand *)

\* What the container's layer directory holds before the import, and its
\* backup sibling.
PriorTargets == {Absent, Dir({}), Dir({FileEntry(<<<<98>>>>, <<98>>)})}
PriorBackups == {Absent, Dir({FileEntry(<<<<97, 98>>>>, <<>>)})}

ImportValidate ==
    /\ pc = "idle"
    /\ ran' = <<"validate">>
    /\ \E t0 \in PriorTargets, b0 \in PriorBackups :
          /\ target' = t0
          /\ backupDir' = b0
          /\ prior' = [target |-> t0, backupDir |-> b0]
    /\ IF ~input.exists
       THEN Stop("NotFound") /\ UNCHANGED <<container, host>>
       ELSE \E h \in Hosts : \E c \in Inspected(h) :
              LET r == validate_container_for_layer_operations(c, h)
              IN  /\ container' = c
                  /\ host' = h
                  /\ IF r = "ok" THEN pc' = "import_decompress" /\ result' = "none"
                     ELSE Stop(r)
    /\ UNCHANGED <<exportData, calculated, backup, targetPath>>
    /\ UNCHANGED <<codecVars, fileVars, checkVars, exportVars, unpackVars, locateVars, openVars>>

ImportDecompress ==
    /\ pc = "import_decompress"
    /\ ran' = Append(ran, "decompress")
    /\ LET r == open_export_tar(input)
       IN  /\ export_tar' = r.tar
           /\ IF r.ok THEN pc' = "import_decompose" /\ result' = "none"
              ELSE Stop("IOError")
    /\ UNCHANGED <<host, exportData, calculated>>
    /\ UNCHANGED <<codecVars, fileVars, checkVars, importVars, exportVars, unpackVars, locateVars>>

\* extract_export_archive, then the presence tests and the parse of
\* metadata.json in execute.
ImportDecompose ==
    /\ pc = "import_decompose"
    /\ IF ~export_archive.outerOk
       THEN Stop("IOError") /\ ran' = Append(ran, "structural") /\ UNCHANGED exportData
       ELSE IF ~export_archive.hasMeta
       THEN Stop("StructuralError") /\ ran' = Append(ran, "structural")
            /\ UNCHANGED exportData
       ELSE IF ~export_archive.metaOk
       THEN Stop("SchemaError") /\ ran' = ran \o <<"structural", "schema">>
            /\ UNCHANGED exportData
       ELSE IF ~export_archive.hasLayer
       THEN Stop("StructuralError") /\ ran' = ran \o <<"structural", "schema">>
            /\ exportData' = export_archive.meta
       ELSE /\ pc' = "import_locate" /\ result' = "none"
            /\ ran' = ran \o <<"structural", "schema">>
            /\ exportData' = export_archive.meta
    /\ UNCHANGED <<host, calculated>>
    /\ UNCHANGED <<codecVars, fileVars, checkVars, importVars, exportVars, unpackVars, locateVars, openVars>>

\* Mutant: the target directory is cleared while the layer is being located.
ImportLocate_clearing_target ==
    /\ pc = "import_locate"
    /\ ran' = Append(ran, "locate")
    /\ \E g \in GraphDrivers :
          LET r == get_upper_layer_path(g, target.exists)
          IN  /\ targetPath' = r.path
              /\ tried' = r.tried
              /\ IF r.ok THEN pc' = "import_replace" /\ result' = "none"
                 ELSE Stop("ResolutionFailure")
    /\ target' = Dir({})
    /\ UNCHANGED <<host, exportData, calculated, backup, container, backupDir, prior>>
    /\ UNCHANGED <<codecVars, fileVars, checkVars, exportVars, unpackVars, openVars>>

ImportLocate ==
    /\ pc = "import_locate"
    /\ ran' = Append(ran, "locate")
    /\ \E g \in GraphDrivers :
          LET r == get_upper_layer_path(g, target.exists)
          IN  /\ targetPath' = r.path
              /\ tried' = r.tried
              /\ IF r.ok THEN pc' = "import_replace" /\ result' = "none"
                 ELSE Stop("ResolutionFailure")
    /\ UNCHANGED <<host, exportData, calculated, backup, container, target, backupDir, prior>>
    /\ UNCHANGED <<codecVars, fileVars, checkVars, exportVars, unpackVars, openVars>>

\* Mutant: a backup already at the sibling path is kept.
ReplaceTarget_first_backup_wins(b, t, bk) ==
    LET moved == b /\ t.exists /\ t.tree # {}
        cleared == ~b /\ t.exists
    IN  [target |-> IF moved \/ cleared \/ ~t.exists THEN Dir({}) ELSE t,
         backupDir |-> IF moved /\ ~bk.exists THEN t ELSE bk]

\* Mutant: the old target is moved aside whether or not a backup was asked
\* for.
ReplaceTarget_always_backing_up(b, t, bk) ==
    LET moved == t.exists /\ t.tree # {}
        cleared == ~b /\ t.exists
    IN  [target |-> IF moved \/ cleared \/ ~t.exists THEN Dir({}) ELSE t,
         backupDir |-> IF moved THEN t ELSE bk]

\* The replacement policy of execute followed by create_dir_all.
ReplaceTarget(b, t, bk) ==
    LET moved == b /\ t.exists /\ t.tree # {}
        cleared == ~b /\ t.exists
    IN  [target |-> IF moved \/ cleared \/ ~t.exists THEN Dir({}) ELSE t,
         backupDir |-> IF moved THEN t ELSE bk]

OnDisk(t, bk) == [target |-> t, backupDir |-> bk]

\* Mutant: the old target is removed and the backup written afterwards.
ReplaceSteps_removing_first(b, t, bk) ==
    IF b /\ t.exists /\ t.tree # {}
    THEN (IF bk.exists THEN <<OnDisk(t, Absent)>> ELSE <<>>)
            \o <<OnDisk(Absent, Absent), OnDisk(Absent, t), OnDisk(Dir({}), t)>>
    ELSE IF b /\ t.exists THEN <<OnDisk(t, bk)>>
    ELSE IF t.exists THEN <<OnDisk(Absent, bk), OnDisk(Dir({}), bk)>>
    ELSE <<OnDisk(Dir({}), bk)>>

\* The file system operations of the replacement, one after the other, each
\* with the target and the backup sibling as it leaves them: remove_dir_all
\* of an earlier backup, rename of the target to the backup path, or
\* remove_dir_all of the target, and create_dir_all of the target.
ReplaceSteps(b, t, bk) ==
    IF b /\ t.exists /\ t.tree # {}
    THEN (IF bk.exists THEN <<OnDisk(t, Absent)>> ELSE <<>>)
            \o <<OnDisk(Absent, t), OnDisk(Dir({}), t)>>
    ELSE IF b /\ t.exists THEN <<OnDisk(t, bk)>>
    ELSE IF t.exists THEN <<OnDisk(Absent, bk), OnDisk(Dir({}), bk)>>
    ELSE <<OnDisk(Dir({}), bk)>>

\* The process is terminated between two operations of the replacement.
InterruptReplace ==
    /\ pc = "import_replace"
    /\ ran' = Append(ran, "interrupted")
    /\ \E b \in BOOLEAN :
          LET steps == ReplaceSteps(b, target, backupDir)
          IN  \E k \in 1..(Len(steps) - 1) :
                /\ backup' = b
                /\ target' = steps[k].target
                /\ backupDir' = steps[k].backupDir
    /\ Stop("Interrupted")
    /\ UNCHANGED <<host, exportData, calculated, container, targetPath, prior>>
    /\ UNCHANGED <<codecVars, fileVars, checkVars, exportVars, unpackVars, locateVars, openVars>>

\* The process is terminated while the layer is unpacked: some leading
\* entries of the layer have been written.
InterruptExtract ==
    /\ pc = "import_extract"
    /\ ran' = Append(ran, "interrupted")
    /\ export_archive.hasLayer /\ export_archive.layerOk
    /\ \E k \in 0..(Len(export_archive.layer) - 1) :
          LET r == extract_tar_archive(SubSeq(export_archive.layer, 1, k), DstRoot,
                                       target.tree)
          IN  /\ target' = Dir(r.tree)
              /\ wrote' = r.wrote
    /\ Stop("Interrupted")
    /\ UNCHANGED <<host, exportData, calculated, backup, container, targetPath, backupDir, prior>>
    /\ UNCHANGED <<codecVars, fileVars, checkVars, exportVars, locateVars, openVars>>

ImportReplace ==
    /\ pc = "import_replace"
    /\ ran' = Append(ran, "replace")
    /\ \E b \in BOOLEAN :
          /\ backup' = b
          /\ target' = ReplaceTarget(b, target, backupDir).target
          /\ backupDir' = ReplaceTarget(b, target, backupDir).backupDir
    /\ pc' = "import_extract"
    /\ UNCHANGED <<result, host, exportData, calculated, container, targetPath, prior>>
    /\ UNCHANGED <<codecVars, fileVars, checkVars, exportVars, unpackVars, locateVars, openVars>>

ImportExtract ==
    /\ pc = "import_extract"
    /\ ran' = Append(ran, "extract")
    /\ IF ~export_archive.hasLayer \/ ~export_archive.layerOk
       THEN Stop("IOError") /\ UNCHANGED <<target, wrote>>
       ELSE LET r == extract_tar_archive(export_archive.layer, DstRoot, target.tree)
            IN  /\ target' = Dir(r.tree)
                /\ wrote' = r.wrote
                /\ IF r.ok THEN pc' = "import_verify" /\ result' = "none"
                   ELSE Stop("IOError")
    /\ UNCHANGED <<host, exportData, calculated, backup, container, targetPath, backupDir, prior>>
    /\ UNCHANGED <<codecVars, fileVars, checkVars, exportVars, locateVars, openVars>>

\* The comparison that closes execute.
VerifyChecksum(sum, export_data) ==
    IF sum # export_data.layer_checksum THEN "ChecksumMismatch" ELSE "ok"

\* Mutant: on a mismatch the backup is moved back to the target.
ImportVerify_restoring ==
    /\ pc = "import_verify"
    /\ ran' = Append(ran, "verify")
    /\ \E w \in WalkDir(DstRoot, target.tree) :
          LET res == VerifyChecksum(calculate_directory_checksum(DstRoot, w), exportData)
          IN  /\ calculated' = calculate_directory_checksum(DstRoot, w)
              /\ Stop(res)
              /\ IF res # "ok" /\ backupDir.exists
                 THEN target' = backupDir /\ backupDir' = Absent
                 ELSE UNCHANGED <<target, backupDir>>
    /\ UNCHANGED <<host, exportData, backup, container, targetPath, prior>>
    /\ UNCHANGED <<codecVars, fileVars, checkVars, exportVars, unpackVars, locateVars, openVars>>

ImportVerify ==
    /\ pc = "import_verify"
    /\ ran' = Append(ran, "verify")
    /\ \E w \in WalkDir(DstRoot, target.tree) :
          /\ calculated' = calculate_directory_checksum(DstRoot, w)
          /\ Stop(VerifyChecksum(calculate_directory_checksum(DstRoot, w), exportData))
    /\ UNCHANGED <<host, exportData>>
    /\ UNCHANGED <<codecVars, fileVars, checkVars, importVars, exportVars, unpackVars, locateVars, openVars>>

ImportNext ==
    \/ ImportValidate
    \/ ImportDecompress
    \/ ImportDecompose
    \/ ImportLocate
    \/ ImportReplace
    \/ InterruptReplace
    \/ ImportExtract
    \/ InterruptExtract
    \/ ImportVerify

----------------------------------------------------------------------------
(* ExportCommand.  Export reads the container's layer, never the export    *)
(* file at hand, so it is run beside an unaltered file only.               *)

ExportValidate ==
    /\ pc = "idle"
    /\ edited = "none"
    /\ ran' = <<"export">>
    /\ \E h \in Hosts : \E c \in Inspected(h) :
          LET r == validate_container_for_layer_operations(c, h)
          IN  /\ container' = c
              /\ host' = h
              /\ IF r = "ok" THEN pc' = "export_locate" /\ result' = "none"
                 ELSE Stop(r)
    /\ UNCHANGED <<exportData, calculated, backup, targetPath, target, backupDir, prior>>
    /\ UNCHANGED <<codecVars, fileVars, checkVars, exportVars, unpackVars, locateVars, openVars>>

\* get_upper_layer_path, then the test that the directory exists
ExportLocate ==
    /\ pc = "export_locate"
    /\ ran' = Append(ran, "locate")
    /\ \E g \in GraphDrivers, onDisk \in BOOLEAN :
          LET r == get_upper_layer_path(g, onDisk)
          IN  /\ targetPath' = r.path
              /\ tried' = r.tried
              /\ IF ~r.ok THEN Stop("ResolutionFailure")
                 ELSE IF ~onDisk THEN Stop("NotFound")
                 ELSE pc' = "export_pack" /\ result' = "none"
    /\ UNCHANGED <<host, exportData, calculated, backup, container, target, backupDir, prior>>
    /\ UNCHANGED <<codecVars, fileVars, checkVars, exportVars, unpackVars, openVars>>

\* create_tar_archive of the layer, the manifest, create_export_archive and
\* the copy or compression to the output path.
ExportWrite ==
    /\ pc = "export_pack"
    /\ ran' = ran \o <<"pack", "write">>
    /\ \E w \in WalkDir(SrcRoot, tree), compress \in BOOLEAN, output_path \in OutputPaths :
          LET r == create_tar_archive(SrcRoot, w)
              export_data == ExportDataOf(container.state, get_docker_info(host).info,
                                          r.checksum, compress)
              written_to == final_output_path(output_path, compress)
          IN  /\ exportData' = export_data
              /\ calculated' = r.checksum
              /\ output' = [written |-> TRUE,
                            requested |-> output_path,
                            path |-> written_to,
                            entries |-> create_export_archive(
                                            to_string_pretty(export_data),
                                            TarBytes(r.archive)),
                            file |-> [ExportFile(r) EXCEPT
                                        !.meta = export_data,
                                        !.gzip = IF compress THEN "gzip" ELSE "none",
                                        !.ext = ExtensionOf(written_to)]]
    /\ Stop("ok")
    /\ UNCHANGED <<host, backup, container, targetPath, target, backupDir, prior>>
    /\ UNCHANGED <<codecVars, fileVars, checkVars, unpackVars, locateVars, openVars>>

ExportNext ==
    \/ ExportValidate
    \/ ExportLocate
    \/ ExportWrite

----------------------------------------------------------------------------
(* The codec run: a directory is built, checksummed, packed, extracted     *)
(* into an empty destination and checksummed again.                        *)

CodecInit ==
    /\ PipelineIdle
    /\ input = NoInput
    /\ edited = "none"
    /\ tree = {}
    /\ cpc = "edit"
    /\ walk = <<>>
    /\ dirSum = <<>>
    /\ layerTar = <<>>
    /\ packSum = <<>>
    /\ outTree = {}
    /\ outSum = <<>>

CreateFile ==
    /\ cpc = "edit"
    /\ Cardinality(tree) < MaxEntries
    /\ \E p \in RelPaths, c \in Contents :
          /\ CanCreate(tree, p)
          /\ tree' = tree \cup {FileEntry(p, c)}
    /\ UNCHANGED <<cpc, walk, dirSum, layerTar, packSum, outTree, outSum>>
    /\ UNCHANGED <<fileVars, runVars, checkVars, importVars, exportVars, unpackVars, locateVars, openVars>>

CreateDir ==
    /\ cpc = "edit"
    /\ Cardinality(tree) < MaxEntries
    /\ \E p \in RelPaths :
          /\ CanCreate(tree, p)
          /\ tree' = tree \cup {DirEntry(p)}
    /\ UNCHANGED <<cpc, walk, dirSum, layerTar, packSum, outTree, outSum>>
    /\ UNCHANGED <<fileVars, runVars, checkVars, importVars, exportVars, unpackVars, locateVars, openVars>>

CreateSymlink ==
    /\ cpc = "edit"
    /\ Cardinality(tree) < MaxEntries
    /\ \E p \in RelPaths :
          /\ CanCreate(tree, p)
          /\ tree' = tree \cup {OtherEntry(p)}
    /\ UNCHANGED <<cpc, walk, dirSum, layerTar, packSum, outTree, outSum>>
    /\ UNCHANGED <<fileVars, runVars, checkVars, importVars, exportVars, unpackVars, locateVars, openVars>>

ChecksumSource ==
    /\ cpc = "edit"
    /\ \E w \in WalkDir(SrcRoot, tree) :
          /\ walk' = w
          /\ dirSum' = calculate_directory_checksum(SrcRoot, w)
    /\ cpc' = "summed"
    /\ UNCHANGED <<tree, layerTar, packSum, outTree, outSum>>
    /\ UNCHANGED <<fileVars, runVars, checkVars, importVars, exportVars, unpackVars, locateVars, openVars>>

Pack ==
    /\ cpc = "summed"
    /\ \E w \in WalkDir(SrcRoot, tree) :
          LET r == create_tar_archive(SrcRoot, w)
          IN  /\ layerTar' = r.archive
              /\ packSum' = r.checksum
    /\ cpc' = "packed"
    /\ UNCHANGED <<tree, walk, dirSum, outTree, outSum>>
    /\ UNCHANGED <<fileVars, runVars, checkVars, importVars, exportVars, unpackVars, locateVars, openVars>>

Extract ==
    /\ cpc = "packed"
    /\ LET r == extract_tar_archive(layerTar, DstRoot, {})
       IN  /\ r.ok
           /\ outTree' = r.tree
           /\ wrote' = r.wrote
    /\ cpc' = "extracted"
    /\ UNCHANGED <<tree, walk, dirSum, layerTar, packSum, outSum>>
    /\ UNCHANGED <<fileVars, runVars, checkVars, importVars, exportVars, locateVars, openVars>>

ChecksumExtracted ==
    /\ cpc = "extracted"
    /\ \E w \in WalkDir(DstRoot, outTree) :
          outSum' = calculate_directory_checksum(DstRoot, w)
    /\ cpc' = "done"
    /\ UNCHANGED <<tree, walk, dirSum, layerTar, packSum, outTree>>
    /\ UNCHANGED <<fileVars, runVars, checkVars, importVars, exportVars, unpackVars, locateVars, openVars>>

CodecNext ==
    \/ CreateFile
    \/ CreateDir
    \/ CreateSymlink
    \/ ChecksumSource
    \/ Pack
    \/ Extract
    \/ ChecksumExtracted

vars ==
    <<codecVars, fileVars, runVars, checkVars, importVars, exportVars, unpackVars,
      locateVars, openVars>>

SpecCodec == CodecInit /\ [][CodecNext]_vars

Next ==
    \/ EditNext
    \/ ExportNext
    \/ CheckNext
    \/ ImportNext

Spec == Init /\ [][Next]_vars

----------------------------------------------------------------------------
(* Properties of the codec run *)

IsSummed == cpc \in {"summed", "packed", "extracted", "done"}
IsPacked == cpc \in {"packed", "extracted", "done"}

\* C1: round-trip identity: the checksum of the tree obtained by extracting,
\* into an empty destination, the archive packed from a tree equals the
\* checksum of that tree.
RoundTripIdentity == cpc = "done" => outSum = dirSum

\* A round trip of a tree holding a non-empty file, an empty file or an empty
\* subdirectory, and at least two entries.
RoundTripWitness ==
    /\ cpc = "done"
    /\ \E e \in tree : e.kind = "file" /\ e.content # <<>>
    /\ \E e \in tree : \/ e.kind = "file" /\ e.content = <<>>
                       \/ e.kind = "dir" /\ ChildrenOf(tree, e.path) = {}

\* C2: the checksum returned by create_tar_archive equals
\* calculate_directory_checksum of the same tree.
PackChecksumIsDirChecksum == IsPacked => packSum = dirSum

\* A packed tree with a file in a subdirectory, discovered out of order.
PackChecksumWitness ==
    /\ cpc = "packed"
    /\ \E e \in tree : e.kind = "file" /\ Len(e.path) = 2 /\ e.content # <<>>
    /\ Cardinality(tree) = MaxEntries
    /\ walk # sort_by(walk)

\* C3: order independence: whatever order the walk discovers the entries in,
\* and wherever the tree is rooted, the directory checksum of the same set of
\* entries is the same.
OrderIndependence ==
    IsSummed =>
        /\ \A w \in WalkDir(SrcRoot, tree) :
              calculate_directory_checksum(SrcRoot, w) = dirSum
        /\ \A w \in WalkDir(DstRoot, tree) :
              calculate_directory_checksum(DstRoot, w) = dirSum

\* A checksum computed from a discovery order that is not the sorted order,
\* for a tree that can be discovered in more than one order.
OrderIndependenceWitness ==
    /\ cpc = "summed"
    /\ walk # sort_by(walk)
    /\ Cardinality(WalkDir(SrcRoot, tree)) > 1

----------------------------------------------------------------------------
(* Properties of check and import *)

Range(seq) == {seq[i] : i \in 1..Len(seq)}

IsCheck == ran # <<>> /\ ran[1] = "open"
IsImport == ran # <<>> /\ ran[1] = "validate"

\* The checksum export would record for the content of a layer archive.
LayerContentChecksums(archive) ==
    {calculate_directory_checksum(DstRoot, w) :
        w \in WalkDir(DstRoot, extract_tar_archive(archive, DstRoot, {}).tree)}

\* C4: tamper detection at import: after one byte of a file of the layer was
\* changed, or an entry added or removed, an import that gets to verify the
\* layer ends with a checksum mismatch; and import succeeds only if the
\* checksum recomputed over the target equals the recorded one.
ImportDetectsTampering ==
    /\ (IsImport /\ pc = "done" /\ edited \in {"byte", "add", "remove"}
            /\ "verify" \in Range(ran))
          => result = "ChecksumMismatch"
    /\ (IsImport /\ result = "ok") => calculated = exportData.layer_checksum

\* C5: tamper detection at check: check never reports success for a file
\* whose layer does not match the checksum recorded in the manifest, be it
\* the checksum of the layer stream or of the layer content.
CheckDetectsChecksumMismatch ==
    (IsCheck /\ pc = "done" /\ result = "ok") =>
        \/ calculated = exportData.layer_checksum
        \/ exportData.layer_checksum \in LayerContentChecksums(input.layer)

ArchDiffers == exportData.architecture # host.architecture
OthersMatch ==
    /\ exportData.driver = host.driver
    /\ exportData.operating_system = host.operating_system

CompatRan == IsCheck /\ "compat" \in Range(ran)

StorageAndOsAdvisory ==
    (CompatRan /\ ~ArchDiffers /\ ~OthersMatch) =>
        /\ errors = {}
        /\ pc \in {"check_report", "done"}
        /\ pc = "done" => result = "ok" /\ main(result) = 0
        /\ get_docker_info(host).ok =>
              /\ ("storage" \in warnings) <=>
                    (~opts.skip_storage /\ exportData.driver # host.driver)
              /\ ("os" \in warnings) <=>
                    (~opts.skip_os /\ exportData.operating_system # host.operating_system)

\* Check has succeeded with both a storage-driver and an operating-system
\* warning.
StorageAndOsAdvisoryWitness ==
    /\ IsCheck /\ pc = "done" /\ result = "ok"
    /\ ~ArchDiffers
    /\ warnings = {"storage", "os"}

\* C8: in the report a check that was not performed is shown as skipped, and
\* a check is shown as passed only if it was performed.
UnperformedNeverReportedPassed ==
    (IsCheck /\ pc = "done" /\ result = "ok") =>
        \A c \in CheckNames :
            /\ summary[c] = "passed" => c \in performed
            /\ c \notin performed => summary[c] = "skipped"

LaterStages == {"layer", "checksum", "compat", "report", "locate", "replace", "extract", "verify"}

\* The command has got to unpack a readable outer archive that lacks an entry.
LacksEntry ==
    /\ "structural" \in Range(ran)
    /\ input.outerOk
    /\ ~input.hasMeta \/ ~input.hasLayer

NoLaterStage ==
    /\ Range(ran) \cap LaterStages = {}
    /\ ~input.hasMeta => "schema" \notin Range(ran)

RequiredNonEmpty(m) ==
    /\ \A f \in StringFields : m[f] # ""
    /\ m.layer_checksum # <<>>

\* C10: schema validation: neither check nor import succeeds on a file whose
\* manifest has an empty required string field.
SchemaValidation ==
    (pc = "done" /\ result = "ok") => RequiredNonEmpty(input.meta)

----------------------------------------------------------------------------
(* Properties of export and import around the container and the target    *)

IsExport == ran # <<>> /\ ran[1] = "export"

Terminal(c) == to_lowercase(c.state) \in {"removing", "dead"}

\* Stages that locate the layer, write the output file or touch the target.
ActingStages == {"locate", "pack", "write", "replace", "extract", "verify"}

TargetUntouched == target = prior.target /\ backupDir = prior.backupDir

\* C11: lifecycle gating: export and import of a container whose state is
\* "removing" or "dead", in any letter case, fail with InvalidState before
\* the layer is located, any output written or the target modified; a
\* container in any other state passes the validation.
LifecycleGating ==
    ((IsExport \/ IsImport) /\ container.exists) =>
        IF Terminal(container)
        THEN /\ pc = "done"
             /\ result = "InvalidState"
             /\ main(result) # 0
             /\ Range(ran) \cap ActingStages = {}
             /\ output = NoOutput
             /\ TargetUntouched
        ELSE /\ result # "InvalidState"
             /\ pc \in {"export_locate", "import_decompress"} \/ Len(ran) > 1

\* An import into a container reported as "Dead" has been refused, with a
\* non-empty target directory left as it was.
LifecycleGatingWitness ==
    /\ IsImport /\ pc = "done" /\ result = "InvalidState"
    /\ container.state = "Dead"
    /\ prior.target.exists /\ prior.target.tree # {}
    /\ target = prior.target

Replaced == IsImport /\ "replace" \in Range(ran)

BackupTaken == backup /\ prior.target.exists /\ prior.target.tree # {}

\* C12: backup on import: once the replacement step of an import with backup
\* requested has run on an existing, non-empty target, the backup sibling
\* holds exactly what the target held before the import, whatever backup
\* was there before, and no entry of the old target is left in the target.
BackupOnImport ==
    (Replaced /\ BackupTaken) =>
        /\ backupDir = prior.target
        /\ target.exists
        /\ target.tree \cap prior.target.tree = {}

\* A successful import with backup over a stale file, with an older backup
\* at the sibling path.
BackupOnImportWitness ==
    /\ Replaced /\ BackupTaken
    /\ pc = "done" /\ result = "ok"
    /\ prior.backupDir.exists /\ prior.backupDir # prior.target
    /\ backupDir = prior.target

\* The file given to import is as export wrote it, gzip framed or not.
AsExported == edited \in {"none", "container"}

\* C13: after a successful import of a file produced by export, in either
\* backup mode and whatever the target held before, the target holds exactly
\* the entries of the exported layer and the checksum recomputed over it is
\* the one in the manifest.
ImportReproducesLayer ==
    (IsImport /\ pc = "done" /\ result = "ok" /\ AsExported) =>
        /\ target = Dir(tree)
        /\ calculated = exportData.layer_checksum

\* What makes import fail at or before the resolution of the target path.
EarlyFailureCause ==
    \/ ~input.exists
    \/ input.gzip = "corrupt"
    \/ input.cut # "none"
    \/ ~input.outerOk
    \/ ~input.hasMeta
    \/ ~input.metaOk
    \/ ~input.hasLayer
    \/ result \in {"NotFound", "InvalidState", "ResolutionFailure"}

\* C14: an import that fails at or before the decompose/parse stage or at
\* the resolution of the writable layer (input file missing, container
\* refused, decompression failed, outer archive unreadable, metadata.json
\* missing or unparseable, layer.tar missing, no path resolved) leaves the
\* target directory and the backup sibling as they were.
ImportEarlyFailureFrame ==
    /\ (IsImport /\ pc = "done" /\ EarlyFailureCause) =>
          /\ result # "ok"
          /\ Range(ran) \cap {"replace", "extract", "verify"} = {}
          /\ TargetUntouched
    /\ (IsImport /\ "replace" \notin Range(ran) /\ result # "Interrupted") =>
          TargetUntouched

\* The writable layer of the target container could not be resolved; the
\* non-empty target and the older backup are still in place.
ImportEarlyFailureWitness ==
    /\ IsImport /\ pc = "done" /\ result = "ResolutionFailure"
    /\ prior.target.tree # {} /\ prior.backupDir.exists
    /\ TargetUntouched

\* Import has parsed the manifest of an unaltered export file, and its
\* architecture is not the one the daemon reports.
ImportArchDiffers ==
    /\ IsImport /\ "schema" \in Range(ran) /\ edited = "none"
    /\ get_docker_info(host).ok
    /\ exportData.architecture # host.architecture

\* C15: compatibility errors abort an import before any destructive action:
\* when the manifest's architecture differs from the host's, import fails
\* and the target directory and its backup sibling stay as they were
\* (stated for the import of a file exactly as export wrote it).
ImportArchitectureGating ==
    (ImportArchDiffers /\ pc = "done") =>
        /\ result # "ok"
        /\ TargetUntouched

----------------------------------------------------------------------------
(* Properties of the extraction of a layer with escaping entry paths       *)

HasEscapingEntry ==
    \E k \in 1..Len(input.layer) : Escaping(input.layer[k].name)

\* Import has handed a readable layer to extract_tar_archive.
Extracted ==
    /\ IsImport /\ "extract" \in Range(ran)
    /\ input.hasLayer /\ input.layerOk

\* C16: path-escape rejection: the extraction of a layer that has an entry
\* with a ".." component or an absolute path fails with an error, so import
\* stops at the extraction; the entry is never skipped or rewritten.
PathEscapeRejected ==
    (Extracted /\ HasEscapingEntry /\ pc = "done") =>
        /\ result \in {"StructuralError", "IOError"}
        /\ "verify" \notin Range(ran)

\* C17: whatever the entry paths of the layer, every path the extraction
\* creates or modifies lies under the destination directory.
ExtractStaysInside ==
    \A p \in wrote : IsPrefix(DstRoot, p) /\ p # DstRoot

\* A layer with the entry "/a" has been extracted, and the entry written
\* under the destination.
ExtractStaysInsideWitness ==
    /\ Extracted
    /\ \E k \in 1..Len(input.layer) : input.layer[k].name = <<RootDir, <<97>>>>
    /\ Append(DstRoot, <<97>>) \in wrote

----------------------------------------------------------------------------
(* Properties of the writable-layer locator                                *)

StrategyOrder == <<"direct", "derived", "inferred">>

Located == (IsExport \/ IsImport) /\ "locate" \in Range(ran)

\* C18: the resolution is a strict ordered fallback: the strategies are
\* called in the order direct, derived, inferred, each only after all the
\* earlier ones failed; the path returned is the result of the first one
\* that succeeded, and when all three failed the operation ends with an
\* error and no path.
OrderedFallback ==
    Located =>
        /\ Len(tried) \in 1..3
        /\ \A i \in 1..Len(tried) : tried[i].strategy = StrategyOrder[i]
        /\ \A i \in 1..(Len(tried) - 1) : ~tried[i].ok
        /\ IF tried[Len(tried)].ok
           THEN /\ targetPath = tried[Len(tried)].path
                /\ targetPath # <<>>
                /\ result # "ResolutionFailure"
           ELSE /\ Len(tried) = 3
                /\ targetPath = <<>>
                /\ pc = "done" /\ result = "ResolutionFailure"
                /\ main(result) # 0

\* The direct strategy failed and the derived one gave the path.
OrderedFallbackWitness ==
    /\ Located
    /\ Len(tried) = 2 /\ ~tried[1].ok /\ tried[2].ok
    /\ targetPath = Append(LayerDir, "upper")

\* The command has sniffed the file for gzip framing.
Sniffed ==
    \/ IsCheck /\ input.exists
    \/ IsImport /\ "decompress" \in Range(ran)

\* The command has gone past the decompression stage.
PastOpen ==
    /\ Sniffed
    /\ \/ pc # "done"
       \/ ran[Len(ran)] \notin {"open", "decompress"}

\* The file is whole: the outer tar stream, gzip framed or not.
Whole == input.cut = "none" /\ input.gzip \in {"none", "gzip"}

\* CheckCommand::execute after the decompression, as a function of the outer
\* archive, the options and the daemon.
CheckOutcome(file, o, h) ==
    LET s == extract_and_validate_structure(file)
        m == read_and_validate_metadata(file)
        l == validate_layer_archive(file)
        c == perform_compatibility_checks(file.meta, o, h)
    IN  IF s # "ok" THEN s
        ELSE IF m # "ok" THEN m
        ELSE IF l.res # "ok" THEN l.res
        ELSE c.res

StartsWithMagic(bytes) == Len(bytes) >= 2 /\ bytes[1] = 31 /\ bytes[2] = 139

\* C20: gzip framing is detected by content only: is_gzip_file is true
\* exactly when the file has at least two bytes and the first two are 0x1f
\* 0x8b; a file shorter than two bytes is not gzip and is not an error at
\* this stage; check and import decompress exactly when is_gzip_file said
\* so, whatever the extension of the file name and the compressed flag of
\* the manifest say.
GzipDetectedByContent ==
    Sniffed =>
        LET bytes == FileBytes(input)
        IN  /\ is_gzip_file(input) = StartsWithMagic(bytes)
            /\ export_tar.is_compressed = StartsWithMagic(bytes)
            /\ Len(bytes) < 2 => ~export_tar.is_compressed /\ PastOpen
            /\ export_tar.bytes = IF StartsWithMagic(bytes)
                                  THEN decompress_file(bytes).bytes
                                  ELSE bytes
            /\ \A e \in {"tar", "gz"}, flag \in BOOLEAN :
                  open_export_tar([input EXCEPT !.ext = e, !.meta.compressed = flag])
                      = open_export_tar(input)

\* A gzip framed file named .tar, whose manifest says it is not compressed,
\* was decompressed by check and passed.
GzipDetectedByContentWitness ==
    /\ IsCheck /\ pc = "done" /\ result = "ok"
    /\ input.gzip = "gzip" /\ input.ext = "tar" /\ ~input.meta.compressed
    /\ export_tar.is_compressed

\* A file of one byte, the first gzip magic byte, was read as a tar stream.
ShortFileNotGzip ==
    /\ IsImport /\ pc = "done" /\ result = "IOError"
    /\ FileBytes(input) = <<31>>
    /\ ~export_tar.is_compressed
    /\ "structural" \in Range(ran)

\* The caller's output path has an extension of its own.
HasExtension(path) == Len(path) >= 2

\* C21: export writes to exactly the requested path when it does not
\* compress; when it compresses, the default extension is added only to a path
\* that has no extension, and a path with an extension is written to as given.
ExportOutputPath ==
    (IsExport /\ output.written) =>
        IF ~exportData.compressed \/ HasExtension(output.requested)
        THEN output.path = output.requested
        ELSE output.path = output.requested \o <<"tar", "gz">>

\* C22: the archive export produced is an outer tar with exactly two entries,
\* metadata.json first and layer.tar second, and the checksum in the manifest
\* is the one create_tar_archive returned for the layer.tar beside it.
ExportArchiveLayout ==
    (IsExport /\ output.written) =>
        /\ Len(output.entries) = 2
        /\ output.entries[1].name = MetadataJson
        /\ output.entries[2].name = LayerTar
        /\ output.entries = OuterEntries(output.file)
        /\ output.entries[1].data = to_string_pretty(output.file.meta)
        /\ output.entries[2].data = TarBytes(output.file.layer)
        /\ output.file.meta.layer_checksum = calculated
        /\ \E w \in WalkDir(SrcRoot, tree) :
              LET r == create_tar_archive(SrcRoot, w)
              IN  /\ r.archive = output.file.layer
                  /\ r.checksum = output.file.meta.layer_checksum

\* A compressed export of a layer with content has been written.
ExportArchiveLayoutWitness ==
    /\ IsExport /\ pc = "done" /\ result = "ok" /\ output.written
    /\ output.file.gzip = "gzip"
    /\ output.file.layer # <<>>
    /\ Len(output.entries) = 2

\* The stages of check in the order of execute; the last one prints the
\* results and the success message.
CheckStages == <<"open", "structural", "schema", "layer", "checksum", "compat", "report">>

Executed(stage) == stage \in Range(ran)

\* C23: check runs its stages in the fixed order structural, schema, layer
\* readability, checksum, compatibility; a stage is executed only if every
\* earlier one succeeded, the first hard failure ends the run, and the
\* success message comes only after all five completed without a fatal error.
CheckStageOrder ==
    IsCheck =>
        /\ Len(ran) <= Len(CheckStages)
        /\ \A i \in 1..Len(ran) : ran[i] = CheckStages[i]
        /\ Executed("schema") => extract_and_validate_structure(export_archive) = "ok"
        /\ Executed("layer") => read_and_validate_metadata(export_archive) = "ok"
        /\ Executed("checksum") => validate_layer_archive(export_archive).res = "ok"
        /\ Executed("compat") => Executed("checksum")
        /\ Executed("report") =>
              /\ perform_compatibility_checks(exportData, opts, host).res = "ok"
              /\ errors = {}
        /\ (pc = "done" /\ result # "ok") =>
              /\ ~Executed("report")
              /\ main(result) # 0
        /\ (pc = "done" /\ result = "ok") =>
              /\ ran = CheckStages
              /\ main(result) = 0

\* Check stopped at the layer stage: the structure and the manifest passed,
\* the layer archive could not be read, nothing later ran.
CheckStageOrderWitness ==
    /\ IsCheck /\ pc = "done" /\ result = "IOError"
    /\ ran = <<"open", "structural", "schema", "layer">>
    /\ ~export_archive.layerOk

\* What the layer of the export file unpacks to in a fresh target.
Unpacks == UnpackFold(export_archive.layer, DstRoot, {}, {})

\* C24: no rollback on a checksum mismatch: import ends with a fatal error,
\* the target holds the newly extracted content, and a backup made at the
\* sibling path stays there and is not put back.
NoRollbackOnMismatch ==
    (IsImport /\ pc = "done" /\ result = "ChecksumMismatch") =>
        /\ main(result) # 0
        /\ calculated # exportData.layer_checksum
        /\ target = Dir(Unpacks.tree)
        /\ backupDir = ReplaceTarget(backup, prior.target, prior.backupDir).backupDir
        /\ BackupTaken => backupDir = prior.target /\ target # prior.target

\* An import with backup over a non-empty target ended with a mismatch.
NoRollbackWitness ==
    /\ IsImport /\ pc = "done" /\ result = "ChecksumMismatch"
    /\ BackupTaken
    /\ backupDir = prior.target
    /\ target.tree # {}

\* The pre-import contents of the target are whole at the target path or at
\* the backup sibling path.
PriorPreserved == target = prior.target \/ backupDir = prior.target

\* C28: during an import with backup requested on an existing non-empty
\* target, at every point of the replacement sequence (earlier backup
\* removed, target renamed aside, fresh target created, layer extracted,
\* checksum verified), and when the process is terminated between two of
\* its steps, the pre-import contents of the target exist unmodified at the
\* target path or at the backup sibling path.
BackupCrashSafe ==
    /\ \A b \in BOOLEAN :
          LET steps == ReplaceSteps(b, target, backupDir)
              last == steps[Len(steps)]
          IN  OnDisk(last.target, last.backupDir) = ReplaceTarget(b, target, backupDir)
    /\ (IsImport /\ BackupTaken) => PriorPreserved

\* The process was terminated after the earlier backup had been removed and
\* before the target was renamed aside.
BackupCrashSafeWitness ==
    /\ IsImport /\ BackupTaken
    /\ pc = "done" /\ result = "Interrupted"
    /\ prior.backupDir.exists
    /\ ~backupDir.exists
    /\ target = prior.target

\* The process was terminated while the layer was being unpacked over the
\* fresh target.
InterruptedInExtraction ==
    /\ IsImport /\ BackupTaken
    /\ pc = "done" /\ result = "Interrupted"
    /\ "replace" \in Range(ran)
    /\ target.exists /\ target.tree # {}
    /\ backupDir = prior.target

\* The replacement of the target has gone through all its operations.
ReplacementDone == IsImport /\ "replace" \in Range(ran)

\* C29: import removes or replaces the backup sibling only when a backup is
\* requested and the existing target is non-empty; when no backup is
\* requested, or the target is absent or empty, the sibling and an earlier
\* backup in it stay as they were, and with no backup requested the content
\* of the existing target is deleted and copied nowhere.
BackupSiblingFrame ==
    /\ (ReplacementDone /\ ~BackupTaken) => backupDir = prior.backupDir
    /\ (IsImport /\ backupDir # prior.backupDir) => BackupTaken
    /\ (ReplacementDone /\ ~backup /\ prior.target.exists /\ pc = "import_extract") =>
          /\ target = Dir({})
          /\ backupDir = prior.backupDir

\* An import without backup cleared a non-empty target next to an earlier
\* backup, which is still there.
BackupSiblingFrameWitness ==
    /\ ReplacementDone /\ ~backup
    /\ prior.target.exists /\ prior.target.tree # {}
    /\ prior.backupDir.exists
    /\ backupDir = prior.backupDir
    /\ pc = "import_extract" /\ target = Dir({})

\* C25: the derived strategy yields a path only from a merged-view field that
\* is present and non-empty, and the path is the parent of that field joined
\* with "upper"; for an empty field or the "<no value>" placeholder it fails,
\* so no path that get_upper_layer_path returns is built from a placeholder.
DerivedNeverFromPlaceholder ==
    Located =>
        /\ \A i \in 1..Len(tried) :
              (tried[i].strategy = "derived" /\ tried[i].ok) =>
                  tried[i].path = Append(LayerDir, "upper")
        /\ targetPath # <<"upper">>

\* C26: a storage driver mismatch is advisory at validation: for a container
\* that exists and is in neither the "removing" nor the "dead" state the
\* validation succeeds whatever driver the daemon reports, and export and
\* import go on towards the resolution of the layer: export resolves it
\* next, import after it has opened the export file, and only a failure to
\* open or decompose that file keeps import from it.
DriverAdvisory ==
    ((IsExport \/ IsImport) /\ container.exists /\ ~Terminal(container)) =>
        /\ host.up /\ host.driver \in {"overlay2", "aufs"}
        /\ validate_container_for_layer_operations(container, host) = "ok"
        /\ ~(pc = "done" /\ Len(ran) = 1)
        /\ IsExport => pc = "export_locate" \/ Located
        /\ (IsImport /\ pc = "done" /\ ~Located) =>
              result \in {"IOError", "StructuralError", "SchemaError"}

\* An import on a daemon that uses the aufs driver has resolved the layer
\* and finished.
DriverAdvisoryWitness ==
    /\ IsImport /\ Located
    /\ host.up /\ host.driver = "aufs"
    /\ container.exists /\ ~Terminal(container)
    /\ pc = "done" /\ result = "ok"

\* Trees of regular files and directories that the tree of the run is
\* compared with: an empty file, an empty directory, and files whose path
\* and content put the same bytes on the two sides of their boundary.
ComparedTrees ==
    { {FileEntry(<<<<97>>>>, <<>>)},
      {DirEntry(<<<<97>>>>)},
      {FileEntry(<<<<97>>>>, <<98>>)},
      {FileEntry(<<<<97, 98>>>>, <<>>)} }

\* The tree holds regular files and directories only.
FilesAndDirs(t) == \A e \in t : e.kind \in {"file", "dir"}

\* C27: the checksum distinguishes trees: two trees of files and directories
\* that differ in the relative path, the kind or the content of an entry
\* have different checksums.
ChecksumDistinguishesTrees ==
    (cpc # "edit" /\ FilesAndDirs(tree)) =>
        \A t \in ComparedTrees :
            t # tree =>
                \A w \in WalkDir(SrcRoot, t) :
                    calculate_directory_checksum(SrcRoot, w) # dirSum

\* C30: when check cannot obtain the current daemon information, none of the
\* storage driver, operating system, architecture and image comparisons is
\* executed, no warning and no error is recorded for them, and check ends
\* with success, the structural, schema and layer stages having passed.
NoInfoNoComparisons ==
    (IsCheck /\ Executed("compat") /\ ~host.up) =>
        /\ ~get_docker_info(host).ok
        /\ performed = {}
        /\ warnings = {}
        /\ errors = {}
        /\ Executed("structural") /\ Executed("schema") /\ Executed("layer")
        /\ \/ pc = "check_report" /\ result = "none"
           \/ pc = "done" /\ result = "ok" /\ main(result) = 0

\* A check with no skip flag, of a manifest of another architecture, ended
\* with success because the daemon did not answer.
NoInfoNoComparisonsWitness ==
    /\ IsCheck /\ pc = "done" /\ result = "ok"
    /\ ~host.up
    /\ opts = NoOpts
    /\ exportData.architecture = "arm64"
    /\ performed = {}

====
